---- MODULE Spec2Model ----
(***************************************************************************)
(* The A2F WebSocket bridge (a2f-ws-bridge.py): one asyncio event loop     *)
(* with a viewer session task per WebSocket connection (ws_handler), a     *)
(* task per HTTP request (http_handler) and a background task per          *)
(* accepted batch (stream_frames).  All tasks share the global set         *)
(* connected_clients.  Every action below is the code one task runs        *)
(* between two suspension points (await) of the event loop.                *)
(***************************************************************************)
EXTENDS Integers, Sequences, FiniteSets, TLC

\* ---------------------------------------------------------------- bounds
NumViewers == 2          \* WebSocket connections that are ever accepted
MaxReq == 2              \* HTTP requests that are ever accepted
MaxFrames == 2           \* longest frame list of a batch
MaxRuns == 1             \* batches that are ever handed to stream_frames
MaxTime == 6             \* largest reading of the clock

\* ------------------------------------------------------ program constants
FPS == 30                \* default frame rate of a batch without "fps"
TicksPerSecond == 60     \* the unit of the clock readings: 1/60 s

Viewers == 1..NumViewers
Requests == 1..MaxReq

FpsValues == {0, FPS}
\* delay = target_time - time.time(): what the clock reading leaves of the
\* frame interval, as the run sees it (nothing, or something).
Delays == {0, 1}
\* An optional field of a JSON object: {} when the key is absent, {x} when
\* it is present with value x.  dict.get(key, default):
Get(field, default) == IF field = {} THEN default ELSE CHOOSE x \in field : TRUE
FpsFields == {{}} \cup {{f} : f \in FpsValues}
EmptyText == 0           \* the status text ""
TextFields == {{}, {1}}

\* The request lines the handler tells apart, as the words it looks for.
RequestLines == {"POST /frames", "POST /status", "GET /", "PUT /frames"}
\* A request line that is no POST but carries the word in its target.
OddLines == {"PUT /frames?m=POST"}
Bodies == {"missing", "empty", "garbage", "json"}

VARIABLES
    connected_clients,   \* the global registry: set of registered handles
    conn,                \* per handle: "new", "open", "closed", "done"
    stalled,             \* handles whose peer does not read (send blocks)
    inbox,               \* per registered handle, per request: the messages
                         \*   of that request's task delivered to the peer,
                         \*   in order
    failed,              \* <<q, v>>: a send of request q's task to the
                         \*   registered handle v raised
    request,             \* per HTTP request: what the handler has read of it,
                         \*   [line, body, n, fps, text], or NoRequest
                         \*   (n = len(frames); fps, text: after the defaults)
    response,            \* per HTTP request: the response written, or NoResponse
    hpc,                 \* per HTTP request: position of http_handler
    rpc,                 \* per HTTP request: position of its stream_frames task
    ri,                  \* per run: index i of the frame being broadcast
    recipients,          \* per request: handles the gather in flight sends to
    pending,             \* per request: sends of that gather not yet finished
    startClients,        \* per run: registry content when the run started
    joinedAt,            \* per registered handle, per run: the ticks the run
                         \*   had begun when the handle was registered
    now,                 \* what time.time() returns, in units of 1/60 s
    start_time,          \* per run: start_time of stream_frames
    sleepLeft,           \* per run: what is left of its asyncio.sleep(delay)
    regOp                \* the last add or discard applied to the registry
                         \*   on its own: [op, handle, before, after, raised]

vars == <<connected_clients, conn, stalled, inbox, failed, request,
          response, hpc, rpc, ri, recipients, pending, startClients, joinedAt,
          now, start_time, sleepLeft, regOp>>

viewerVars == <<connected_clients, conn, stalled, joinedAt>>
runVars == <<rpc, ri, startClients>>
httpVars == <<request, response, hpc>>
clockVars == <<now, start_time, sleepLeft>>

NoOp == [op |-> "none", handle |-> 0, before |-> {}, after |-> {}, raised |-> FALSE]

NoRequest == [line |-> "", body |-> "missing", n |-> 0, fps |-> 0, text |-> 0]
NoResponse == [code |-> 0, kind |-> "none", val |-> 0]

\* ---------------------------------------------------------------- messages
\* json.dumps(frame): frame i of the batch of request q
FrameMsg(q, i) == [type |-> "frame", src |-> q, val |-> i]
\* json.dumps({"end": True, "total_frames": len(frames)})
EndMsg(q, n) == [type |-> "end", src |-> q, val |-> n]
\* json.dumps({"status": data.get("text", ""), "type": "status"})
StatusMsg(q, text) == [type |-> "status", src |-> q, val |-> text]

\* ------------------------------------------------------------------- Init
Init ==
    /\ connected_clients = {}
    /\ conn = [v \in Viewers |-> "new"]
    /\ stalled = {}
    /\ inbox = [v \in Viewers |-> [q \in Requests |-> <<>>]]
    /\ failed = {}
    /\ request = [q \in Requests |-> NoRequest]
    /\ response = [q \in Requests |-> NoResponse]
    /\ hpc = [q \in Requests |-> "idle"]
    /\ rpc = [q \in Requests |-> "none"]
    /\ ri = [q \in Requests |-> 0]
    /\ recipients = [q \in Requests |-> {}]
    /\ pending = [q \in Requests |-> {}]
    /\ startClients = [q \in Requests |-> {}]
    /\ joinedAt = [v \in Viewers |-> [q \in Requests |-> 0]]
    /\ now = 0
    /\ start_time = [q \in Requests |-> 0]
    /\ sleepLeft = [q \in Requests |-> 0]
    /\ regOp = NoOp

\* ------------------------------------------------------- viewer sessions
\* Frame ticks of run q whose recipients have been taken already; after the
\* terminal marker's tick this is len(frames) + 1.
TicksBegun(q) ==
    CASE rpc[q] \in {"sending", "sleeping"} -> ri[q] + 1
      [] rpc[q] \in {"ending", "done"} -> request[q].n + 1
      [] OTHER -> 0

\* connected_clients.add(websocket), line 25
Register(reg, v) == reg \cup {v}

NoDiscard(reg, v) == reg

\* connected_clients.discard(websocket), line 33
Discard(reg, v) == reg \ {v}

\* ws_handler up to its first await: the v-th connection is accepted and
\* registered.  slow: whether this peer never reads what is sent to it.
WsConnect(v, slow) ==
    /\ conn[v] = "new"
    /\ \A u \in Viewers : u < v => conn[u] # "new"
    /\ connected_clients' = Register(connected_clients, v)
    /\ conn' = [conn EXCEPT ![v] = "open"]
    /\ stalled' = IF slow THEN stalled \cup {v} ELSE stalled
    /\ joinedAt' = [joinedAt EXCEPT ![v] = [q \in Requests |-> TicksBegun(q)]]
    /\ UNCHANGED <<inbox, failed, httpVars, runVars, recipients, pending>>
    /\ UNCHANGED <<clockVars, regOp>>

ReceiveDiscards(v) ==
    /\ conn[v] = "open"
    /\ connected_clients' = Discard(connected_clients, v)
    /\ UNCHANGED <<conn, stalled, joinedAt, inbox, failed, httpVars, runVars,
                   recipients, pending, clockVars, regOp>>

\* ws_handler, lines 28-29: a message of the peer arrives and the loop body
\* is pass.
WsReceive(v) ==
    /\ conn[v] = "open"
    /\ UNCHANGED vars

\* The connection of v closes (peer close, reset): from now on send raises
\* ConnectionClosed and the receive loop of ws_handler is about to end.  A
\* closed connection is no longer stalled: what waits on it is woken.
PeerClose(v) ==
    /\ conn[v] = "open"
    /\ conn' = [conn EXCEPT ![v] = "closed"]
    /\ stalled' = stalled \ {v}
    /\ UNCHANGED <<connected_clients, joinedAt, inbox, failed,
                   httpVars, runVars, recipients, pending, clockVars, regOp>>

\* ws_handler, lines 30-34: the receive loop has ended, the finally block
\* deregisters the handle.  What was observed of the session (inbox, failed,
\* joinedAt) is kept only as long as the handle is registered.
WsHandlerExit(v) ==
    /\ conn[v] = "closed"
    /\ conn' = [conn EXCEPT ![v] = "done"]
    /\ connected_clients' = Discard(connected_clients, v)
    /\ joinedAt' = [joinedAt EXCEPT ![v] = [q \in Requests |-> 0]]
    /\ inbox' = [inbox EXCEPT ![v] = [q \in Requests |-> <<>>]]
    /\ failed' = {f \in failed : f[2] # v}
    /\ UNCHANGED <<stalled, httpVars, runVars,
                   recipients, pending, clockVars, regOp>>

\* set.add of a websocket object (hashable) does not raise; set.discard,
\* unlike set.remove, raises no KeyError for an element that is absent.
AddRaises(reg, v) == FALSE
RemoveRaises(reg, v) == v \notin reg
DiscardRaises(reg, v) == FALSE

\* connected_clients.add(websocket) on its own, for the handle of a session
\* that is open (and so registered already).
ApplyRegister(v) ==
    /\ conn[v] = "open"
    /\ connected_clients' =
          IF AddRaises(connected_clients, v) THEN connected_clients
          ELSE Register(connected_clients, v)
    /\ regOp' = [op |-> "add", handle |-> v, before |-> connected_clients,
                 after |-> connected_clients',
                 raised |-> AddRaises(connected_clients, v)]
    /\ UNCHANGED <<conn, stalled, joinedAt, inbox, failed, httpVars, runVars,
                   recipients, pending, clockVars>>

\* connected_clients.discard(websocket) on its own, for the handle of a
\* connection that has closed: before the finally of its ws_handler has run
\* (which then discards an absent handle), or after it.
ApplyDiscard(v) ==
    /\ conn[v] \in {"closed", "done"}
    /\ connected_clients' =
          IF DiscardRaises(connected_clients, v) THEN connected_clients
          ELSE Discard(connected_clients, v)
    /\ regOp' = [op |-> "discard", handle |-> v, before |-> connected_clients,
                 after |-> connected_clients',
                 raised |-> DiscardRaises(connected_clients, v)]
    /\ UNCHANGED <<conn, stalled, joinedAt, inbox, failed, httpVars, runVars,
                   recipients, pending, clockVars>>

\* ----------------------------------------------------------- broadcasts
StaleSnapshot(q) == IF rpc[q] = "created" THEN connected_clients ELSE startClients[q]

OpenOnly(q) == {v \in connected_clients : conn[v] = "open"}

\* [client.send(msg) for client in connected_clients]: the comprehension
\* runs without suspension, so it reads the registry at one instant.
Snapshot(q) == connected_clients

\* The frame index taken from the run that is furthest.
SharedIndexMsg(q) ==
    CASE hpc[q] = "gather" -> StatusMsg(q, request[q].text)
      [] rpc[q] = "sending" ->
           FrameMsg(q, CHOOSE i \in 0..MaxFrames :
                          /\ \E p \in Requests : rpc[p] = "sending" /\ ri[p] = i
                          /\ \A p \in Requests : rpc[p] = "sending" => ri[p] <= i)
      [] OTHER -> EndMsg(q, request[q].n)

\* The message of the gather that request q has in flight.
CurrentMsg(q) ==
    CASE hpc[q] = "gather" -> StatusMsg(q, request[q].text)
      [] rpc[q] = "sending" -> FrameMsg(q, ri[q])
      [] OTHER -> EndMsg(q, request[q].n)

AbortOnSendError(q) == [rpc EXCEPT ![q] = "crashed"]

DeregisterOnError(reg, v, raised) == IF raised THEN reg \ {v} ELSE reg

\* Nothing in lines 49-52, 59-62 and 84-87 writes connected_clients: after
\* a send to v, raised or not, the registry is what it was.
AfterSend(reg, v, raised) == reg

\* gather(..., return_exceptions=True): an exception of one send is
\* collected as a result, the awaiting task goes on.
OnSendError(q) == rpc

\* websocket.send on a connection that is not OPEN raises ConnectionClosed.
SendRaises(v) == conn[v] # "open"

\* One send coroutine of the gather of q finishes: the message reaches the
\* peer, or the send raises.  A send to an open, stalled peer does not finish.
SendComplete(q, v) ==
    /\ v \in pending[q]
    /\ ~(conn[v] = "open" /\ v \in stalled)
    /\ pending' = [pending EXCEPT ![q] = @ \ {v}]
    /\ IF SendRaises(v)
         THEN /\ failed' = failed \cup ({<<q, v>>} \cap (Requests \X connected_clients))
              /\ rpc' = OnSendError(q)
              /\ UNCHANGED inbox
         ELSE /\ inbox' = [inbox EXCEPT ![v][q] = Append(@, CurrentMsg(q))]
              /\ UNCHANGED <<failed, rpc>>
    /\ connected_clients' = AfterSend(connected_clients, v, SendRaises(v))
    /\ UNCHANGED <<conn, stalled, joinedAt, httpVars, ri, startClients, recipients>>
    /\ UNCHANGED <<clockVars, regOp>>

RespondEarly(q) == TRUE

WaitsForAll(q) == \A p \in Requests : pending[p] = {}

GatherAny(q) == pending[q] = {} \/ pending[q] # recipients[q]

\* await asyncio.gather(...) returns when every send of that gather has
\* finished or raised (lines 49-52, 59-62, 84-87).
GatherDone(q) == pending[q] = {}

\* ---------------------------------------------------------- stream_frames
NeverSkip(reg) == FALSE

\* "if not connected_clients", line 39
NoClients(reg) == reg = {}

\* frame_interval = 1.0 / fps raises ZeroDivisionError for fps = 0
IntervalRaises(fps) == fps = 0

SkipFrame(i) == i + 2

\* the next index that enumerate(frames) yields
NextIndex(i) == i + 1

AtLeastOnce(i, n) == i < n \/ i = 0

\* enumerate(frames) yields an index i exactly for 0 <= i < len(frames):
\* the loop body is not entered for an empty list.
InFrames(i, n) == i < n

\* Lines 47-52, or 58-62 when the frames are exhausted: the task of q takes
\* the recipients of tick i and awaits the gather of their sends.  (The
\* await of a gather over no send is taken as a suspension point as well:
\* other tasks may run there, which only adds interleavings.)
Broadcast(q, i) ==
    /\ rpc' = [rpc EXCEPT ![q] = IF InFrames(i, request[q].n) THEN "sending" ELSE "ending"]
    /\ ri' = [ri EXCEPT ![q] = IF InFrames(i, request[q].n) THEN i ELSE request[q].n]
    /\ recipients' = [recipients EXCEPT ![q] = Snapshot(q)]
    /\ pending' = [pending EXCEPT ![q] = Snapshot(q)]

\* The task created at line 100 runs for the first time: lines 39-50.
RunStart(q) ==
    /\ rpc[q] = "created"
    /\ startClients' = [startClients EXCEPT ![q] = connected_clients]
    /\ IF NoClients(connected_clients)
         THEN /\ rpc' = [rpc EXCEPT ![q] = "skipped"]
              /\ UNCHANGED <<ri, recipients, pending, start_time>>
         ELSE IF IntervalRaises(request[q].fps)
                THEN \* the exception ends the task at line 43
                     /\ rpc' = [rpc EXCEPT ![q] = "crashed"]
                     /\ UNCHANGED <<ri, recipients, pending, start_time>>
                ELSE \* start_time = time.time(), line 45
                     /\ start_time' = [start_time EXCEPT ![q] = now]
                     /\ Broadcast(q, 0)
    /\ UNCHANGED <<viewerVars, inbox, failed, httpVars, now, sleepLeft, regOp>>

\* The gather of frame i has returned: lines 53-56, and with no delay left
\* on to the next tick.  delay: target_time - time.time().
RunPace(q, delay) ==
    /\ rpc[q] = "sending"
    /\ GatherDone(q)
    /\ IF delay > 0
         THEN /\ rpc' = [rpc EXCEPT ![q] = "sleeping"]
              /\ sleepLeft' = [sleepLeft EXCEPT ![q] = delay]
              /\ UNCHANGED <<ri, recipients, pending>>
         ELSE /\ Broadcast(q, NextIndex(ri[q]))
              /\ UNCHANGED sleepLeft
    /\ UNCHANGED <<viewerVars, inbox, failed, httpVars, startClients>>
    /\ UNCHANGED <<now, start_time, regOp>>

\* asyncio.sleep(delay) returns.
RunWake(q) ==
    /\ rpc[q] = "sleeping"
    /\ sleepLeft' = [sleepLeft EXCEPT ![q] = 0]
    /\ Broadcast(q, NextIndex(ri[q]))
    /\ UNCHANGED <<viewerVars, inbox, failed, httpVars, startClients>>
    /\ UNCHANGED <<now, start_time, regOp>>

\* The gather of the terminal marker has returned: line 63, the task ends.
RunFinish(q) ==
    /\ rpc[q] = "ending"
    /\ GatherDone(q)
    /\ rpc' = [rpc EXCEPT ![q] = "done"]
    /\ UNCHANGED <<viewerVars, inbox, failed, httpVars, ri, startClients,
                   recipients, pending, clockVars, regOp>>

\* ------------------------------------------------------------------ clock
\* frame_interval = 1.0 / fps, line 43, in clock units
FrameInterval(fps) == TicksPerSecond \div fps

\* target_time = start_time + (i + 1) * frame_interval, line 53
TargetTime(q) == start_time[q] + (ri[q] + 1) * FrameInterval(request[q].fps)

\* Lines 53-56 with delay = target_time - time.time()
ClockPace(q) == RunPace(q, TargetTime(q) - now)

\* asyncio.sleep(delay) returns once delay has elapsed on the clock of the
\* event loop (loop.time(), monotonic).
ClockWake(q) == sleepLeft[q] = 0 /\ RunWake(q)

\* One unit of time passes: time.time() and the loop's clock both advance.
Tick ==
    /\ now < MaxTime
    /\ now' = now + 1
    /\ sleepLeft' = [q \in Requests |-> IF sleepLeft[q] > 0 THEN sleepLeft[q] - 1 ELSE 0]
    /\ UNCHANGED <<viewerVars, inbox, failed, httpVars, runVars, recipients,
                   pending, start_time, regOp>>

\* time.time() is the system's wall clock: it reads lower than before when
\* the system clock has been set back.  The loop's clock is not affected.
ClockSetBack ==
    /\ now > 0
    /\ now' = now - 1
    /\ UNCHANGED <<viewerVars, inbox, failed, httpVars, runVars, recipients,
                   pending, start_time, sleepLeft, regOp>>

\* ------------------------------------------------------------ http_handler
\* `word in request`: which of the words the handler looks for ("POST",
\* "GET", "/status", "/frames") occur in the request line.
Contains(line, word) ==
    word \in (CASE line = "POST /frames" -> {"POST", "/frames"}
                [] line = "POST /status" -> {"POST", "/status"}
                [] line = "GET /" -> {"GET"}
                [] line = "PUT /frames" -> {"/frames"}
                [] line = "PUT /frames?m=POST" -> {"POST", "/frames"}
                [] OTHER -> {})

\* int(headers.get("content-length", 0)): positive only for a body with bytes.
ContentLength(body) == IF body \in {"missing", "empty"} THEN 0 ELSE 1

\* json.loads(body) raises on bytes that are no JSON document.
LoadsRaises(body) == body = "garbage"

Response(code, kind, val) == [code |-> code, kind |-> kind, val |-> val]

\* except Exception / finally, lines 111-114: nothing is written, the
\* connection is closed.
HandlerRaises(q) ==
    /\ response' = [response EXCEPT ![q] = NoResponse]
    /\ hpc' = [hpc EXCEPT ![q] = "closed"]

\* writer.write(response.encode()), writer.close(), lines 109-114
Respond(q, r) ==
    /\ response' = [response EXCEPT ![q] = r]
    /\ hpc' = [hpc EXCEPT ![q] = "closed"]

\* POST /status, lines 80-87, up to the await of the gather.  No body means
\* the document {}.
StatusBranch(q, req) ==
    /\ UNCHANGED <<runVars>>
    /\ IF ContentLength(req.body) > 0 /\ LoadsRaises(req.body)
         THEN HandlerRaises(q) /\ UNCHANGED <<recipients, pending>>
         ELSE /\ recipients' = [recipients EXCEPT ![q] = Snapshot(q)]
              /\ pending' = [pending EXCEPT ![q] = Snapshot(q)]
              /\ hpc' = [hpc EXCEPT ![q] = "gather"]
              /\ UNCHANGED response

FramesBranchAwaited(q, req) ==
    /\ UNCHANGED <<ri, startClients, recipients, pending>>
    /\ IF ContentLength(req.body) > 0
         THEN IF LoadsRaises(req.body)
                THEN HandlerRaises(q) /\ UNCHANGED rpc
                ELSE \* await stream_frames(frames, fps)
                     /\ rpc' = [rpc EXCEPT ![q] = "created"]
                     /\ hpc' = [hpc EXCEPT ![q] = "awaiting"]
                     /\ UNCHANGED response
         ELSE /\ Respond(q, Response(400, "no body", 0))
              /\ UNCHANGED rpc

\* POST /frames, lines 92-103
FramesBranch(q, req) ==
    /\ UNCHANGED <<ri, startClients, recipients, pending>>
    /\ IF ContentLength(req.body) > 0
         THEN IF LoadsRaises(req.body)
                THEN HandlerRaises(q) /\ UNCHANGED rpc
                ELSE \* asyncio.create_task(stream_frames(frames, fps))
                     /\ rpc' = [rpc EXCEPT ![q] = "created"]
                     /\ Respond(q, Response(200, "streaming", req.n))
         ELSE /\ Respond(q, Response(400, "no body", 0))
              /\ UNCHANGED rpc

\* The requests told apart: a body that is no JSON document carries no
\* fields, only a batch carries frames and fps, only a status event a text
\* (a status request without body stands for the one without text).  The
\* PUT that carries the word POST comes with a batch of one frame.
WellFormed(req) ==
    /\ (req.body # "json" => req.n = 0 /\ req.fps = {} /\ req.text = {})
    /\ (req.line \in {"GET /", "PUT /frames"} => req.body = "missing")
    /\ (req.line \notin {"POST /frames", "PUT /frames?m=POST"}
           => req.n = 0 /\ req.fps = {})
    /\ (req.line = "PUT /frames?m=POST"
           => req.body = "json" /\ req.n = 1 /\ req.fps = {})
    /\ (req.line # "POST /status" => req.text = {})
    /\ (req.line = "POST /status" => req.body # "empty")
    /\ (req.line = "POST /status" /\ req.body = "json" => req.text # {})

\* A request that hands a batch to stream_frames, and the batches handed
\* over so far.
IsBatch(req) ==
    /\ ~(Contains(req.line, "POST") /\ Contains(req.line, "/status"))
    /\ Contains(req.line, "POST") /\ Contains(req.line, "/frames")
    /\ req.body = "json"
RunsCreated == Cardinality({q \in Requests : rpc[q] # "none"})

\* fps = data.get("fps", FPS), data.get("text", "")
Parsed(req) ==
    [line |-> req.line, body |-> req.body, n |-> req.n,
     fps |-> IF IsBatch(req) THEN Get(req.fps, FPS) ELSE 0,
     text |-> Get(req.text, EmptyText)]

\* http_handler from the accepted connection up to its first await after
\* the request is read: lines 68-110.
HttpHandler(q, req) ==
    /\ request[q] = NoRequest
    /\ \A p \in Requests : p < q => request[p] # NoRequest
    /\ WellFormed(req)
    /\ request' = [request EXCEPT ![q] = Parsed(req)]
    /\ IF Contains(req.line, "POST") /\ Contains(req.line, "/status")
         THEN StatusBranch(q, req)
         ELSE IF Contains(req.line, "POST") /\ Contains(req.line, "/frames")
           THEN FramesBranch(q, req)
           ELSE /\ UNCHANGED <<runVars, recipients, pending>>
                /\ IF Contains(req.line, "GET")
                     THEN Respond(q, Response(200, "clients",
                                              Cardinality(connected_clients)))
                     ELSE Respond(q, Response(404, "not found", 0))
    /\ UNCHANGED <<viewerVars, inbox, failed, clockVars, regOp>>

\* The handler, with at most MaxRuns batches handed over.
HttpRequest(q, req) ==
    /\ request[q] = NoRequest
    /\ IsBatch(req) => RunsCreated < MaxRuns
    /\ HttpHandler(q, req)

\* POST /status, lines 88-89 and 109-114: the gather has returned.
StatusRespond(q) ==
    /\ hpc[q] = "gather"
    /\ GatherDone(q)
    /\ Respond(q, Response(200, "ok", 0))
    /\ UNCHANGED <<viewerVars, inbox, failed, request, runVars,
                   recipients, pending, clockVars, regOp>>

\* ------------------------------------------------------------------ Next

Next ==
    \/ \E v \in Viewers, slow \in BOOLEAN : WsConnect(v, slow)
    \/ \E v \in Viewers : WsReceive(v)
    \/ \E v \in Viewers : PeerClose(v)
    \/ \E v \in Viewers : WsHandlerExit(v)
    \/ \E q \in Requests, line \in RequestLines, body \in Bodies,
          n \in 0..MaxFrames, fps \in FpsFields, text \in TextFields :
          HttpRequest(q, [line |-> line, body |-> body, n |-> n, fps |-> fps,
                          text |-> text])
    \/ \E q \in Requests : StatusRespond(q)
    \/ \E q \in Requests : RunStart(q)
    \/ \E q \in Requests, v \in Viewers : SendComplete(q, v)
    \/ \E q \in Requests, delay \in Delays : RunPace(q, delay)
    \/ \E q \in Requests : RunWake(q)
    \/ \E q \in Requests : RunFinish(q)

Spec == Init /\ [][Next]_vars

\* Fairness of the event loop: a task that can run is run.  Nothing makes
\* a peer connect, close or send a request.
Fairness ==
    /\ \A v \in Viewers : WF_vars(WsHandlerExit(v))
    /\ \A q \in Requests :
         /\ WF_vars(StatusRespond(q))
         /\ WF_vars(RunStart(q))
         /\ WF_vars(\E delay \in Delays : RunPace(q, delay))
         /\ WF_vars(RunWake(q))
         /\ WF_vars(RunFinish(q))
         /\ \A v \in Viewers : WF_vars(SendComplete(q, v))

FairSpec == Spec /\ Fairness

\* A status event with a text.
StatusRequest(q) ==
    HttpRequest(q, [line |-> "POST /status", body |-> "json", n |-> 0,
                    fps |-> {}, text |-> {1}])

\* One batch at the default rate, streamed against the clock.
BatchRequest(q, n) ==
    HttpRequest(q, [line |-> "POST /frames", body |-> "json", n |-> n,
                    fps |-> {FPS}, text |-> {}])

ClockNext ==
    \/ \E v \in Viewers : WsConnect(v, FALSE)
    \/ \E q \in Requests, n \in 1..MaxFrames : BatchRequest(q, n)
    \/ \E q \in Requests : RunStart(q)
    \/ \E q \in Requests, v \in Viewers : SendComplete(q, v)
    \/ \E q \in Requests : ClockPace(q)
    \/ \E q \in Requests : ClockWake(q)
    \/ \E q \in Requests : RunFinish(q)
    \/ Tick
    \/ ClockSetBack

ClockSpec == Init /\ [][ClockNext]_vars

\* The handler given every request line, the odd ones included, with the
\* broadcasts that follow.
RoutingNext ==
    \/ \E v \in Viewers : WsConnect(v, FALSE)
    \/ \E q \in Requests, line \in RequestLines \cup OddLines, body \in Bodies,
          n \in 0..MaxFrames, fps \in FpsFields, text \in TextFields :
          HttpRequest(q, [line |-> line, body |-> body, n |-> n, fps |-> fps,
                          text |-> text])
    \/ \E q \in Requests : StatusRespond(q)
    \/ \E q \in Requests : RunStart(q)
    \/ \E q \in Requests, v \in Viewers : SendComplete(q, v)
    \/ \E q \in Requests, delay \in Delays : RunPace(q, delay)
    \/ \E q \in Requests : RunWake(q)
    \/ \E q \in Requests : RunFinish(q)

RoutingSpec == Init /\ [][RoutingNext]_vars

\* Batches handed over without a cap on their number: runs that are active
\* at the same time, for viewers that stay.
ConcurrentBatch(q, n) ==
    HttpHandler(q, [line |-> "POST /frames", body |-> "json", n |-> n,
                    fps |-> {FPS}, text |-> {}])

ConcurrentNext ==
    \/ \E v \in Viewers : WsConnect(v, FALSE)
    \/ \E v \in Viewers : PeerClose(v)
    \/ \E v \in Viewers : WsHandlerExit(v)
    \/ \E q \in Requests, n \in 1..MaxFrames : ConcurrentBatch(q, n)
    \/ \E q \in Requests : StatusRequest(q)
    \/ \E q \in Requests : StatusRespond(q)
    \/ \E q \in Requests : RunStart(q)
    \/ \E q \in Requests, v \in Viewers : SendComplete(q, v)
    \/ \E q \in Requests, delay \in Delays : RunPace(q, delay)
    \/ \E q \in Requests : RunWake(q)
    \/ \E q \in Requests : RunFinish(q)

ConcurrentSpec == Init /\ [][ConcurrentNext]_vars

\* The registry operations applied on their own, next to the sessions of
\* the program and one status broadcast.
RegistryNext ==
    \/ \E v \in Viewers : WsConnect(v, FALSE)
    \/ \E v \in Viewers : PeerClose(v)
    \/ \E v \in Viewers : WsHandlerExit(v)
    \/ StatusRequest(1)
    \/ \E q \in Requests, v \in Viewers : SendComplete(q, v)
    \/ \E q \in Requests : StatusRespond(q)
    \/ \E v \in Viewers : ApplyRegister(v)
    \/ \E v \in Viewers : ApplyDiscard(v)

RegistrySpec == Init /\ [][RegistryNext]_vars

\* ------------------------------------------------------------- properties
IsPrefix(s, t) == Len(s) <= Len(t) /\ SubSeq(t, 1, Len(s)) = s

\* Frames k .. n-1 of the batch of q, then its terminal marker; nothing when
\* even the marker's tick was begun (k = n + 1).
ExpectedFrom(q, k) ==
    IF k > request[q].n THEN <<>>
    ELSE [j \in 1..(request[q].n - k + 1) |->
            IF j <= request[q].n - k THEN FrameMsg(q, k + j - 1)
                                     ELSE EndMsg(q, request[q].n)]

\* v is registered and no send of q's task to it has raised.
Steady(q, v) == v \in connected_clients /\ <<q, v>> \notin failed

\* The messages of q's task that v has got by now, if none was lost: one per
\* tick begun since v joined, less the one still in flight.
DueBy(q, v) ==
    TicksBegun(q) - joinedAt[v][q] - (IF v \in pending[q] THEN 1 ELSE 0)

\* C1: a viewer registered since before the run started and still registered,
\* whose sends have all succeeded, has received frames 0, 1, ... of the run
\* in index order without gap or repetition, and once the run has ended it
\* has received exactly frames 0..N-1 followed by the one terminal marker
\* {end, total_frames: N}.
C1_FramesInOrderThenEnd ==
    \A q \in Requests, v \in Viewers :
        (v \in startClients[q] /\ Steady(q, v)) =>
            /\ IsPrefix(inbox[v][q], ExpectedFrom(q, 0))
            /\ (rpc[q] = "done" => inbox[v][q] = ExpectedFrom(q, 0))

C1_Witness ==
    \E q \in Requests, v \in Viewers :
        /\ rpc[q] = "done" /\ request[q].n >= 2
        /\ v \in startClients[q] /\ Steady(q, v)
        /\ inbox[v][q] = <<FrameMsg(q, 0), FrameMsg(q, 1), EndMsg(q, request[q].n)>>

\* C2: a send that raises, or a viewer that leaves mid-run, neither aborts
\* the run nor costs another viewer a message: the run ends with an
\* exception only for the frame rate 0, and where some viewer of the run has
\* failed or left, every viewer registered since the start whose sends
\* succeed has exactly the messages due by now, in order, and all N frames
\* and the marker once the run has ended.
C2_FaultIsolation ==
    \A q \in Requests :
        /\ rpc[q] = "crashed" => IntervalRaises(request[q].fps)
        /\ (\E u \in Viewers : <<q, u>> \in failed \/ u \in startClients[q] \ connected_clients)
             => \A v \in startClients[q] :
                   Steady(q, v) =>
                      /\ Len(inbox[v][q]) = DueBy(q, v)
                      /\ IsPrefix(inbox[v][q], ExpectedFrom(q, 0))
                      /\ (rpc[q] = "done" => inbox[v][q] = ExpectedFrom(q, 0))

C2_Witness ==
    \E q \in Requests, u, v \in Viewers :
        /\ rpc[q] = "done" /\ request[q].n >= 2
        /\ {u, v} \subseteq startClients[q] /\ u # v
        /\ <<q, u>> \in failed
        /\ Steady(q, v)
        /\ inbox[v][q] = <<FrameMsg(q, 0), FrameMsg(q, 1), EndMsg(q, request[q].n)>>

\* C5: a run that finds the registry empty when it starts ends there: it is
\* skipped, takes no recipients, and no message of its batch is ever
\* delivered to anyone, whoever registers later.
RunStarted(q) == rpc[q] \notin {"none", "created"}

C5_NoViewerSkip ==
    \A q \in Requests :
        (RunStarted(q) /\ startClients[q] = {}) =>
            /\ rpc[q] = "skipped"
            /\ recipients[q] = {} /\ pending[q] = {}
            /\ \A v \in Viewers : inbox[v][q] = <<>>

C5_Witness ==
    \E q \in Requests :
        /\ rpc[q] = "skipped" /\ request[q].n >= 1
        /\ request[q].fps # 0
        /\ connected_clients # {}
        /\ \A v \in Viewers : inbox[v][q] = <<>>

\* C6: a viewer registered after tick k of a run took its recipients and
\* before tick k+1 (so k+1 ticks were begun), still registered and with no
\* failed send, has received frames k+1, k+2, ... in order and none of
\* frames 0..k; once the run has ended it has received exactly frames
\* k+1..N-1 and the terminal marker.
C6_LateJoin ==
    \A q \in Requests, v \in Viewers :
        (rpc[q] \in {"sending", "sleeping", "ending", "done"}
           /\ Steady(q, v) /\ joinedAt[v][q] >= 1) =>
            /\ IsPrefix(inbox[v][q], ExpectedFrom(q, joinedAt[v][q]))
            /\ Len(inbox[v][q]) = DueBy(q, v)
            /\ (rpc[q] = "done" => inbox[v][q] = ExpectedFrom(q, joinedAt[v][q]))

C6_Witness ==
    \E q \in Requests, v \in Viewers :
        /\ rpc[q] = "done" /\ request[q].n >= 2
        /\ Steady(q, v) /\ joinedAt[v][q] = 1
        /\ inbox[v][q] = <<FrameMsg(q, 1), EndMsg(q, request[q].n)>>

\* C7: a batch submission without body, with an empty body or with a body
\* that is no JSON document is answered 400 and starts no run, so that no
\* message is ever broadcast for it.
C7_MalformedRejected ==
    \A q \in Requests :
        (request[q].line = "POST /frames"
           /\ request[q].body \in {"missing", "empty", "garbage"}) =>
            /\ response[q].code = 400
            /\ rpc[q] = "none"
            /\ \A v \in Viewers : inbox[v][q] = <<>>

\* C8: once the handler has read a valid batch, the response
\* {status: "streaming", frames: len(frames)} is written and the handler is
\* through, whatever the position of the run: created, streaming, waiting on
\* a peer that never reads, ended.
C8_AckWithoutWaiting ==
    \A q \in Requests :
        IsBatch(request[q]) =>
            /\ rpc[q] # "none"
            /\ hpc[q] = "closed"
            /\ response[q] = Response(200, "streaming", request[q].n)

C8_Witness ==
    \E q \in Requests :
        /\ IsBatch(request[q]) /\ request[q].n >= 1
        /\ rpc[q] = "sending"
        /\ \E v \in pending[q] : conn[v] = "open" /\ v \in stalled
        /\ response[q] = Response(200, "streaming", request[q].n)

\* C9: when {ok: true} is written, no send of the status gather is still in
\* flight: every handle that was registered when the broadcast was issued
\* has had its send finish or raise, and those still registered without a
\* raised send hold the message {status: text, type: "status"}.
C9_OkAfterBroadcast ==
    \A q \in Requests :
        response[q].kind = "ok" =>
            /\ pending[q] = {}
            /\ \A v \in recipients[q] :
                  Steady(q, v) => inbox[v][q] = <<StatusMsg(q, request[q].text)>>

C9_Witness ==
    \E q \in Requests, u, v \in Viewers :
        /\ response[q].kind = "ok"
        /\ {u, v} \subseteq recipients[q]
        /\ <<q, u>> \in failed
        /\ Steady(q, v) /\ inbox[v][q] = <<StatusMsg(q, 1)>>

\* C10: while a status broadcast is in flight, each of its sends that has
\* finished without raising has delivered the status message; the messages
\* of a run in progress that a viewer holds are exactly those due, in order,
\* as without the status; and a run whose own gather has returned (or that
\* sleeps) can take its next step although status sends are still pending.
C10_StatusIndependence ==
    \A s \in Requests :
        hpc[s] = "gather" =>
            /\ \A v \in recipients[s] \ pending[s] :
                  Steady(s, v) => inbox[v][s] = <<StatusMsg(s, request[s].text)>>
            /\ \A r \in Requests :
                  rpc[r] \in {"sending", "sleeping", "ending"} =>
                     /\ \A v \in Viewers :
                           Steady(r, v) =>
                              /\ IsPrefix(inbox[v][r], ExpectedFrom(r, joinedAt[v][r]))
                              /\ Len(inbox[v][r]) = DueBy(r, v)
                     /\ (rpc[r] = "sending" /\ pending[r] = {} => ENABLED RunPace(r, 0))
                     /\ (rpc[r] = "sleeping" => ENABLED RunWake(r))
                     /\ (rpc[r] = "ending" /\ pending[r] = {} => ENABLED RunFinish(r))

\* The status was issued after tick 0 of the run (u, a recipient, joined
\* after that tick), it is still in flight, and the run has gone on.
C10_Witness ==
    \E s, r \in Requests, u, v \in Viewers :
        /\ hpc[s] = "gather" /\ pending[s] # {}
        /\ rpc[r] = "sending" /\ ri[r] >= 1 /\ pending[r] = {}
        /\ u \in recipients[s] /\ joinedAt[u][r] = 1
        /\ inbox[v][s] = <<StatusMsg(s, request[s].text)>>
        /\ inbox[v][r] = <<FrameMsg(r, 0), FrameMsg(r, 1)>>

\* C3: a send to a registered viewer that raised (for a frame, a terminal
\* marker or a status message) is followed by the removal of that viewer's
\* handle from the registry.
C3_FailedViewerRemoved ==
    \A v \in Viewers :
        (\E q \in Requests : <<q, v>> \in failed) ~> (v \notin connected_clients)

C3_Witness ==
    \E q \in Requests, v \in Viewers :
        /\ <<q, v>> \in failed
        /\ v \in connected_clients
        /\ rpc[q] \in {"sending", "ending"}

\* C4: a run in progress comes to its end for a viewer that is registered
\* and reads what it is sent (or that viewer leaves), whatever another peer
\* does with what is sent to it, never reading included.
Healthy(v) == v \in connected_clients /\ conn[v] = "open" /\ v \notin stalled

C4_StalledPeerDoesNotStall ==
    \A q \in Requests, v \in Viewers :
        (rpc[q] \in {"sending", "sleeping", "ending"} /\ Healthy(v))
            ~> (rpc[q] = "done" \/ ~Healthy(v))

\* C11: every batch handed to stream_frames has fps > 0, and no run that
\* was handed over ends with an exception.
C11_PositiveFps ==
    \A q \in Requests :
        rpc[q] # "none" => (request[q].fps > 0 /\ rpc[q] # "crashed")

\* C12: a request that is neither POST /frames nor POST /status nor the
\* health query GET is answered 404, starts no run and broadcasts nothing.
Routed == {"POST /frames", "POST /status", "GET /"}

C12_Routing ==
    \A q \in Requests :
        (request[q] # NoRequest /\ request[q].line \notin Routed) =>
            /\ response[q].code = 404
            /\ rpc[q] = "none"
            /\ recipients[q] = {}
            /\ \A v \in Viewers : inbox[v][q] = <<>>

\* C13: add applied to a handle that is present, and discard applied to a
\* handle that is absent, leave the registry as it was, and neither
\* operation raises, whatever broadcasts are in flight.
C13_RegistryIdempotent ==
    /\ ~regOp.raised
    /\ (regOp.op = "add" /\ regOp.handle \in regOp.before)
          => regOp.after = regOp.before
    /\ (regOp.op = "discard" /\ regOp.handle \notin regOp.before)
          => regOp.after = regOp.before

\* discard was applied to an absent handle while a send to that handle was
\* still in flight.
C13_Witness ==
    /\ regOp.op = "discard" /\ regOp.handle \notin regOp.before
    /\ regOp.after = regOp.before
    /\ \E q \in Requests : regOp.handle \in pending[q]

\* C14: within one run a tick after the first (the sends of the next frame,
\* or of the terminal marker after the last frame) begins only when no send
\* of the tick before is still in flight.
C14_TickAfterGather ==
    [][\A q \in Requests :
          (TicksBegun(q) >= 1 /\ TicksBegun(q)' > TicksBegun(q))
              => pending[q] = {}]_vars

\* Frame 1 is being sent after frame 0 went to two recipients, and both
\* sends of frame 0 have finished: one delivered, one raised.
C14_Witness ==
    \E q \in Requests, u, v \in Viewers :
        /\ rpc[q] = "sending" /\ ri[q] = 1
        /\ startClients[q] = {u, v} /\ u # v
        /\ <<q, u>> \in failed
        /\ Steady(q, v) /\ IsPrefix(<<FrameMsg(q, 0)>>, inbox[v][q])

\* C15: after frame i the run sleeps exactly when target_time =
\* start_time + (i+1)*interval is later than the clock reading; the next
\* tick (frame i+1, or the terminal marker after the last frame) begins at
\* a clock reading of target_time or later; and each tick is followed by
\* the next one, none is skipped.
C15_Pacing ==
    [][\A q \in Requests :
          /\ (rpc[q] = "sending" /\ rpc'[q] = "sleeping") => now < TargetTime(q)
          /\ (rpc[q] = "sending" /\ TicksBegun(q)' > TicksBegun(q))
                => now >= TargetTime(q)
          /\ (TicksBegun(q) >= 1 /\ TicksBegun(q)' > TicksBegun(q))
                => /\ now >= start_time[q]
                             + TicksBegun(q) * FrameInterval(request[q].fps)
                   /\ TicksBegun(q)' = TicksBegun(q) + 1]_vars

\* C16: the recipients of a tick (frame, terminal marker or status message)
\* are the registry content in the step that begins the tick; a step that
\* changes the registry changes neither the recipients nor the pending
\* sends of any tick in flight nor the position of any run or handler; and
\* a message is delivered only to a recipient of its tick.
TickBegins(q) ==
    \/ TicksBegun(q)' > TicksBegun(q)
    \/ hpc[q] = "idle" /\ hpc'[q] = "gather"

C16_PointInTimeRecipients ==
    [][\A q \in Requests :
          /\ TickBegins(q) =>
                recipients'[q] = connected_clients /\ pending'[q] = connected_clients
          /\ connected_clients' # connected_clients =>
                /\ recipients'[q] = recipients[q] /\ pending'[q] = pending[q]
                /\ rpc'[q] = rpc[q] /\ hpc'[q] = hpc[q]
          /\ \A v \in Viewers :
                Len(inbox'[v][q]) > Len(inbox[v][q]) => v \in recipients[q]]_vars

\* A frame is in flight to a recipient that has left the registry since the
\* tick began, while a handle registered since then is no recipient.
C16_Witness ==
    \E q \in Requests, u, v \in Viewers :
        /\ rpc[q] = "sending" /\ u \in pending[q]
        /\ u \in recipients[q] \ connected_clients
        /\ v \in connected_clients \ recipients[q]

\* C17: of two runs started over the shared registry, a viewer registered
\* since before both started, with no failed send, holds for each batch
\* separately that batch's frames 0, 1, ... in index order without gap or
\* repetition, as many as are due by now, and once that run has ended all
\* its frames followed by its one terminal marker.
C17_ConcurrentRuns ==
    \A p, q \in Requests, v \in Viewers :
        (p # q /\ RunStarted(p) /\ RunStarted(q)
           /\ v \in startClients[p] \cap startClients[q]
           /\ Steady(p, v) /\ Steady(q, v)) =>
            /\ IsPrefix(inbox[v][q], ExpectedFrom(q, 0))
            /\ Len(inbox[v][q]) = DueBy(q, v)
            /\ (rpc[q] = "done" => inbox[v][q] = ExpectedFrom(q, 0))

\* Both runs are in the middle of their batches at the same time, and one
\* has ended its second frame while the other has not.
C17_Witness ==
    \E p, q \in Requests, v \in Viewers :
        /\ p # q /\ rpc[p] = "sending" /\ rpc[q] = "sending"
        /\ v \in startClients[p] \cap startClients[q]
        /\ inbox[v][p] = <<FrameMsg(p, 0), FrameMsg(p, 1)>>
        /\ inbox[v][q] = <<FrameMsg(q, 0)>> /\ ri[q] = 0

\* C18: a handle is in the registry exactly from the start of its
\* ws_handler to the end of it (connection open, or closed with the finally
\* block still to run); a handle whose handler has ended stays out of the
\* registry and its session stays ended; a message received from the peer
\* changes nothing; and a closed connection's handle is eventually removed.
Connected(v) == conn[v] \in {"open", "closed"}

C18_SessionLifecycle ==
    /\ [](\A v \in Viewers : v \in connected_clients <=> Connected(v))
    /\ [][\A v \in Viewers :
             /\ conn[v] = "done" => conn'[v] = "done"
             /\ WsReceive(v) => UNCHANGED vars]_vars
    /\ \A v \in Viewers : (conn[v] = "closed") ~> (v \notin connected_clients)

\* One session has ended and its handle is out of the registry, while the
\* other, connected, has been sent a frame and is still registered.
C18_Witness ==
    \E u, v \in Viewers, q \in Requests :
        /\ conn[u] = "done" /\ u \notin connected_clients
        /\ u \in startClients[q]
        /\ conn[v] = "open" /\ v \in connected_clients
        /\ inbox[v][q] # <<>>

\* C19: no step of stream_frames and no step of the status path changes
\* the registry; every step that changes it is the start or the end of a
\* ws_handler.
BroadcasterStep ==
    \E q \in Requests :
        \/ RunStart(q)
        \/ \E v \in Viewers : SendComplete(q, v)
        \/ \E delay \in Delays : RunPace(q, delay)
        \/ RunWake(q)
        \/ RunFinish(q)
        \/ StatusRequest(q)
        \/ StatusRespond(q)

C19_BroadcasterReadsOnly ==
    [][/\ BroadcasterStep => connected_clients' = connected_clients
       /\ connected_clients' # connected_clients =>
             \E v \in Viewers : WsConnect(v, FALSE) \/ WsHandlerExit(v)]_vars

\* Two runs are streaming at once, a send of each to the same handle has
\* raised, and the handle is still in the registry.
C19_Witness ==
    \E p, q \in Requests, u \in Viewers :
        /\ p # q
        /\ rpc[p] \in {"sending", "ending"} /\ rpc[q] \in {"sending", "ending"}
        /\ <<p, u>> \in failed /\ <<q, u>> \in failed
        /\ u \in connected_clients

\* C20: a run over an empty frame list never sends a frame and never
\* sleeps; nobody holds anything of it but its terminal marker with
\* total_frames = 0, and that at most once; if the registry was empty when
\* it started it is skipped and nobody holds anything of it; and when it
\* has ended, every viewer registered since its start whose send succeeded
\* holds exactly the one marker.
C20_EmptyBatch ==
    \A q \in Requests :
        (IsBatch(request[q]) /\ request[q].n = 0) =>
            /\ rpc[q] \notin {"sending", "sleeping"}
            /\ sleepLeft[q] = 0
            /\ \A v \in Viewers : inbox[v][q] \in {<<>>, <<EndMsg(q, 0)>>}
            /\ (RunStarted(q) /\ startClients[q] = {}) =>
                  /\ rpc[q] = "skipped"
                  /\ \A v \in Viewers : inbox[v][q] = <<>>
            /\ rpc[q] = "done" =>
                  \A v \in startClients[q] :
                      Steady(q, v) => inbox[v][q] = <<EndMsg(q, 0)>>

C20_Witness ==
    \E q \in Requests, v \in Viewers :
        /\ IsBatch(request[q]) /\ request[q].n = 0
        /\ rpc[q] = "done"
        /\ v \in startClients[q] /\ Steady(q, v)
        /\ inbox[v][q] = <<EndMsg(q, 0)>>

====
